---- MODULE Spec2Model ----
(***************************************************************************)
(* Tabular Q-learning client of a remote grid world (src/main.py).         *)
(*                                                                         *)
(* The model follows the second, complete copy of the program in the       *)
(* file (lines 212-405): class APIClient (the World Interface and the      *)
(* points file) and class QLearningAgent (value table, policy, update      *)
(* rule, training loop).                                                   *)
(*                                                                         *)
(* Real numbers (value-table entries, rewards, alpha, gamma, epsilon) are  *)
(* exact rationals <<n, d>> in lowest terms with d > 0; float('-inf') is   *)
(* <<-1, 0>>.  Python values that reach _state_key keep their type tag     *)
(* (int, str, None, tuple, list), so that tuple([3,4]) and [3,4] differ    *)
(* as they do in Python.  random.random() and random.choice are            *)
(* nondeterministic choices.                                               *)
(***************************************************************************)
EXTENDS Integers, Sequences, FiniteSets, TLC

VARIABLES
    \* QLearningAgent fields (__init__)
    world_id, alpha, gamma, epsilon, episodes, min_epsilon, decay_rate, Q,
    \* train(): control point, loop counter and locals
    pc, ep, position, state_key, done, total, best_reward, move,
    \* what train() returned, and the exception that ended it
    returned, error,
    \* the points file written by APIClient.store_points
    data,
    \* history: requests issued, last learn call, value table before it,
    \* branch taken by the last choose_direction, rewards per episode,
    \* epsilon after each episode, whether the last result lacked a field,
    \* number of moves submitted, number of learn calls made
    calls, call, Qprev, branch, rewardsLog, epsLog, lacking, nMoves, nLearn,
    \* history: the (state key, action) pairs chosen, the last update computed
    \* for each pair, the last result received from the world
    chosen, updates, lastRes,
    \* the run: the world id the operator typed (main), and how many moves
    \* the model lets one run submit
    entered_id, moveCap,
    \* a pure function under test: its arguments and its result
    fnArgs, fnResult

agentVars == <<world_id, alpha, gamma, epsilon, episodes, min_epsilon, decay_rate, Q>>
trainVars == <<pc, ep, position, state_key, done, total, best_reward, move, returned, error>>
histVars  == <<calls, call, Qprev, branch, rewardsLog, epsLog, lacking, nMoves, nLearn,
               chosen, updates, lastRes>>
fnVars    == <<fnArgs, fnResult>>
runVars   == <<entered_id, moveCap>>
vars == <<agentVars, trainVars, data, histVars, fnVars, runVars>>

-----------------------------------------------------------------------------
(* Bounds of the model *)

\* moves submitted in one run of train
MaxMoves == 2
\* episodes configured (self.episodes)
MaxEpisodes == 2
\* learn calls in the specification that calls learn with arbitrary arguments
MaxLearnCalls == 2
\* largest grid size, besides the program's 40, given to valid_directions
MaxGrid == 3

-----------------------------------------------------------------------------
(* Exact rational arithmetic *)

Abs(n) == IF n < 0 THEN -n ELSE n

RECURSIVE GCD(_, _)
GCD(a, b) == IF b = 0 THEN a ELSE GCD(b, a % b)

\* n/d in lowest terms, d > 0
Rat(n, d) ==
    LET s == IF d < 0 THEN -1 ELSE 1
        g == GCD(Abs(n), Abs(d))
    IN  <<(s * n) \div g, (s * d) \div g>>

Zero == <<0, 1>>
One == <<1, 1>>
NegInf == <<-1, 0>>
IsFinite(a) == a[2] # 0

RAdd(a, b) == Rat(a[1] * b[2] + b[1] * a[2], a[2] * b[2])
RSub(a, b) == Rat(a[1] * b[2] - b[1] * a[2], a[2] * b[2])
RMul(a, b) == Rat(a[1] * b[1], a[2] * b[2])
\* a < b, with float('-inf') below every number
RLess(a, b) ==
    IF ~IsFinite(b) THEN FALSE
    ELSE IF ~IsFinite(a) THEN TRUE
    ELSE a[1] * b[2] < b[1] * a[2]
RLeq(a, b) == a = b \/ RLess(a, b)
\* Python's max(a, b): the first argument unless the second is greater
PyMax(a, b) == IF RLess(a, b) THEN b ELSE a

\* max of a non-empty sequence of numbers
RECURSIVE MaxOfSeq(_)
MaxOfSeq(q) ==
    IF Len(q) = 1 THEN q[1] ELSE PyMax(q[1], MaxOfSeq(Tail(q)))

\* sum of a sequence of numbers, starting from 0
RECURSIVE SumOfSeq(_)
SumOfSeq(q) ==
    IF Len(q) = 0 THEN Zero ELSE RAdd(q[1], SumOfSeq(Tail(q)))

Range(q) == {q[i] : i \in 1..Len(q)}

-----------------------------------------------------------------------------
(* Python values *)

PyInt(n)   == [t |-> "int", v |-> n]
PyStr(s)   == [t |-> "str", v |-> s]
PyNone     == [t |-> "none", v |-> 0]
PyTuple(q) == [t |-> "tuple", v |-> q]
PyList(q)  == [t |-> "list", v |-> q]

\* tuple(x) for a list or tuple x
tuple(x) == PyTuple(x.v)

\* a JSON array of integers as the Python list json() returns
IntList(q) == PyList([i \in 1..Len(q) |-> PyInt(q[i])])

\* dict.get(key, default) on a JSON object (a function on its keys)
Get(obj, key, default) == IF key \in DOMAIN obj THEN obj[key] ELSE default

-----------------------------------------------------------------------------
(* QLearningAgent: pure parts *)

\* self.directions (directions=None at construction)
Directions == <<"N", "S", "W", "E">>

\* default of valid_directions' grid_size parameter; train never passes another
GridSize == 40

\* self.Q = {}
EmptyQ == [k \in {} |-> Zero]

\* self.Q.get(key, 0): a lookup never creates an entry
QGet(Qt, key) == IF key \in DOMAIN Qt THEN Qt[key] ELSE Zero

\* self.Q[key] = value
QSet(Qt, key, value) ==
    [k \in DOMAIN Qt \cup {key} |-> IF k = key THEN value ELSE Qt[k]]

\* tuple(state) if isinstance(state, (list, tuple)) else (state,)
_state_key(state) ==
    IF state.t \in {"list", "tuple"} THEN tuple(state) ELSE PyTuple(<<state>>)

\* "x, y = position" raises ValueError unless position has two items
Unpacks(pos) == Len(pos) = 2

\* valid_directions comparing with grid_size where the code uses grid_size - 1
valid_directions_off_by_one(pos, grid_size) ==
    LET x == pos[1]
        y == pos[2]
        m == grid_size
        dirs == (IF x > 0 THEN <<"N">> ELSE <<>>)
                \o (IF x < m THEN <<"S">> ELSE <<>>)
                \o (IF y > 0 THEN <<"W">> ELSE <<>>)
                \o (IF y < m THEN <<"E">> ELSE <<>>)
    IN  IF dirs # <<>> THEN dirs ELSE Directions

\* valid_directions returning the filtered list as it is, empty or not
valid_directions_no_fallback(pos, grid_size) ==
    LET x == pos[1]
        y == pos[2]
        m == grid_size - 1
    IN  (IF x > 0 THEN <<"N">> ELSE <<>>)
        \o (IF x < m THEN <<"S">> ELSE <<>>)
        \o (IF y > 0 THEN <<"W">> ELSE <<>>)
        \o (IF y < m THEN <<"E">> ELSE <<>>)

\* valid_directions(position, grid_size) for a position that unpacks
valid_directions(pos, grid_size) ==
    LET x == pos[1]
        y == pos[2]
        m == grid_size - 1
        dirs == (IF x > 0 THEN <<"N">> ELSE <<>>)
                \o (IF x < m THEN <<"S">> ELSE <<>>)
                \o (IF y > 0 THEN <<"W">> ELSE <<>>)
                \o (IF y < m THEN <<"E">> ELSE <<>>)
    IN  IF dirs # <<>> THEN dirs ELSE Directions

\* the outcomes of "random.random() < self.epsilon", random() in [0, 1)
Branches(eps) ==
    (IF RLess(Zero, eps) THEN {"explore"} ELSE {})
    \cup (IF RLess(eps, One) THEN {"exploit"} ELSE {})

\* choose_direction that exploits by taking the first action of maximum value
choose_direction_first_seen(key, valid_dirs, br) ==
    LET dirs == IF valid_dirs # <<>> THEN valid_dirs ELSE Directions
        q_vals == [i \in 1..Len(dirs) |-> QGet(Q, <<key, dirs[i]>>)]
        max_q == MaxOfSeq(q_vals)
        first == CHOOSE i \in 1..Len(dirs) :
                    /\ q_vals[i] = max_q
                    /\ \A j \in 1..(i - 1) : q_vals[j] # max_q
    IN  IF br = "explore" THEN Range(dirs) ELSE {dirs[first]}

\* choose_direction(state_key, valid_dirs): the actions random.choice may
\* return on the given branch
choose_direction(key, valid_dirs, br) ==
    LET dirs == IF valid_dirs # <<>> THEN valid_dirs ELSE Directions
        q_vals == [i \in 1..Len(dirs) |-> QGet(Q, <<key, dirs[i]>>)]
        max_q == MaxOfSeq(q_vals)
        best == {dirs[i] : i \in {j \in 1..Len(dirs) : q_vals[j] = max_q}}
    IN  IF br = "explore" THEN Range(dirs) ELSE best

\* max(self.Q.get((next_key, d), 0) for d in self.directions)
future_max(next_key) ==
    MaxOfSeq([i \in 1..Len(Directions) |-> QGet(Q, <<next_key, Directions[i]>>)])

\* q_val + self.alpha * (target - q_val): the value learn computes
td_update(key, action, reward, next_key, isDone) ==
    LET q_val == QGet(Q, <<key, action>>)
        target == IF isDone THEN reward
                  ELSE RAdd(reward, RMul(gamma, future_max(next_key)))
    IN  RAdd(q_val, RMul(alpha, RSub(target, q_val)))

\* the position held in a state key (world id, position)
PositionOf(key) == [i \in 1..Len(key.v[2].v) |-> key.v[2].v[i].v]

\* learn that bootstraps from the next state on terminal transitions too
learn_bootstraps_always(key, action, reward, next_key, isDone) ==
    LET q_val == QGet(Q, <<key, action>>)
        target == RAdd(reward, RMul(gamma, future_max(next_key)))
    IN  QSet(Q, <<key, action>>, RAdd(q_val, RMul(alpha, RSub(target, q_val))))

\* learn whose maximum ranges over the directions legal at the next state
learn_legal_only(key, action, reward, next_key, isDone) ==
    LET q_val == QGet(Q, <<key, action>>)
        legal == valid_directions(PositionOf(next_key), GridSize)
        legal_max == MaxOfSeq([i \in 1..Len(legal) |-> QGet(Q, <<next_key, legal[i]>>)])
        target == IF isDone THEN reward
                  ELSE RAdd(reward, RMul(gamma, legal_max))
    IN  QSet(Q, <<key, action>>, RAdd(q_val, RMul(alpha, RSub(target, q_val))))

\* learn on a table whose lookups create the entries they miss
learn_creates_entries(key, action, reward, next_key, isDone) ==
    LET q_val == QGet(Q, <<key, action>>)
        looked == IF isDone THEN {}
                  ELSE {<<next_key, Directions[i]>> : i \in 1..Len(Directions)}
        target == IF isDone THEN reward
                  ELSE RAdd(reward, RMul(gamma, future_max(next_key)))
        filled == [k \in DOMAIN Q \cup looked |-> QGet(Q, k)]
    IN  QSet(filled, <<key, action>>, RAdd(q_val, RMul(alpha, RSub(target, q_val))))

\* the update written under the next state's key instead of the state's own
learn_updates_next_state(key, action, reward, next_key, isDone) ==
    LET q_val == QGet(Q, <<key, action>>)
        target == IF isDone THEN reward
                  ELSE RAdd(reward, RMul(gamma, future_max(next_key)))
    IN  QSet(Q, <<next_key, action>>, RAdd(q_val, RMul(alpha, RSub(target, q_val))))

\* learn(state_key, action, reward, next_key, done): the value table after it
learn(key, action, reward, next_key, isDone) ==
    LET q_val == QGet(Q, <<key, action>>)
        target == IF isDone THEN reward
                  ELSE RAdd(reward, RMul(gamma, future_max(next_key)))
    IN  QSet(Q, <<key, action>>, RAdd(q_val, RMul(alpha, RSub(target, q_val))))

\* the best reward replaced by the total of the episode just ended
best_is_last(best, tot) == tot

\* max(best_reward, total)
best_so_far(best, tot) == PyMax(best, tot)

\* the decay without its floor
decay_no_floor(eps, min_eps, rate) == RMul(eps, rate)

\* max(self.min_epsilon, self.epsilon * self.decay_rate)
decay(eps, min_eps, rate) == PyMax(min_eps, RMul(eps, rate))

-----------------------------------------------------------------------------
(* APIClient: the points file *)

\* TEAM_ID, the key of this client's record in the points file
TeamId == "1449"

\* sum(f.values()) for a dict f
RECURSIVE SumValues(_, _)
SumValues(f, S) ==
    IF S = {} THEN Zero
    ELSE LET k == CHOOSE k \in S : TRUE
         IN  RAdd(f[k], SumValues(f, S \ {k}))

\* store_points adding the points to the value already stored for the world
store_points_accumulates(file, wid, points) ==
    LET team == IF TeamId \in DOMAIN file THEN file[TeamId]
                ELSE [total |-> Zero, by_world |-> [w \in {} |-> Zero]]
        by_world == [w \in DOMAIN team.by_world \cup {wid} |->
                        IF w # wid THEN team.by_world[w]
                        ELSE IF w \in DOMAIN team.by_world
                             THEN RAdd(team.by_world[w], points)
                             ELSE points]
        rec == [total |-> SumValues(by_world, DOMAIN by_world),
                by_world |-> by_world]
    IN  [t \in DOMAIN file \cup {TeamId} |-> IF t = TeamId THEN rec ELSE file[t]]

\* store_points(world_id, points): the contents of the points file after it
store_points(file, wid, points) ==
    LET team == IF TeamId \in DOMAIN file THEN file[TeamId]
                ELSE [total |-> Zero, by_world |-> [w \in {} |-> Zero]]
        by_world == [w \in DOMAIN team.by_world \cup {wid} |->
                        IF w = wid THEN points ELSE team.by_world[w]]
        rec == [total |-> SumValues(by_world, DOMAIN by_world),
                by_world |-> by_world]
    IN  [t \in DOMAIN file \cup {TeamId} |-> IF t = TeamId THEN rec ELSE file[t]]

-----------------------------------------------------------------------------
(* Construction and the start of train *)

\* QLearningAgent.__init__
AgentInit(wid, a, g, e, n, me, dr) ==
    /\ world_id = wid
    /\ alpha = a
    /\ gamma = g
    /\ epsilon = e
    /\ episodes = n
    /\ min_epsilon = me
    /\ decay_rate = dr
    /\ Q = EmptyQ

\* train() entered: best_reward = float('-inf'); the locals are not yet bound
TrainInit ==
    /\ pc = "for"
    /\ ep = 0
    /\ position = <<>>
    /\ state_key = PyNone
    /\ done = FALSE
    /\ total = Zero
    /\ best_reward = NegInf
    /\ move = ""
    /\ returned = <<>>
    /\ error = "none"

NoCall == [key |-> PyNone, action |-> "", reward |-> Zero,
           next_key |-> PyNone, done |-> FALSE]

\* no result received yet: a JSON object without fields
NoResult == [f \in {} |-> Zero]

HistInit ==
    /\ calls = <<>>
    /\ call = NoCall
    /\ Qprev = EmptyQ
    /\ branch = "none"
    /\ rewardsLog = <<>>
    /\ epsLog = <<epsilon>>
    /\ lacking = FALSE
    /\ nMoves = 0
    /\ nLearn = 0
    /\ chosen = {}
    /\ updates = EmptyQ
    /\ lastRes = NoResult

NotCalled == [called |-> FALSE, value |-> <<>>]

FnIdle == fnArgs = <<>> /\ fnResult = NotCalled

\* train called directly for world wid, the model letting it submit cap moves
RunInit(wid, cap) == entered_id = wid /\ moveCap = cap

\* one request to a collaborator, as logged in calls
Request(op, wid, m, points) ==
    [op |-> op, world |-> wid, move |-> m, points |-> points]

-----------------------------------------------------------------------------
(* train(): one action per stretch of code between two requests *)

\* a loop that begins one episode more than range(self.episodes) gives
EnterWorld_once_more ==
    /\ pc = "for"
    /\ ep <= episodes
    /\ calls' = Append(calls, Request("enter", world_id, "", Zero))
    /\ pc' = "locate"
    /\ UNCHANGED <<agentVars, ep, position, state_key, done, total, best_reward,
                   move, returned, error, data, call, Qprev, branch, rewardsLog,
                   epsLog, lacking, nMoves, nLearn, chosen, updates, lastRes,
                   fnVars, runVars>>

\* an episode that begins with a fresh value table
EnterWorld_resets_table ==
    /\ pc = "for"
    /\ ep < episodes
    /\ calls' = Append(calls, Request("enter", world_id, "", Zero))
    /\ Q' = EmptyQ
    /\ pc' = "locate"
    /\ UNCHANGED <<world_id, alpha, gamma, epsilon, episodes, min_epsilon,
                   decay_rate, ep, position, state_key, done, total, best_reward,
                   move, returned, error, data, call, Qprev, branch, rewardsLog,
                   epsLog, lacking, nMoves, nLearn, chosen, updates, lastRes,
                   fnVars, runVars>>

\* for _ in range(self.episodes): self.client.enter_world(self.world_id)
EnterWorld ==
    /\ pc = "for"
    /\ ep < episodes
    /\ calls' = Append(calls, Request("enter", world_id, "", Zero))
    /\ pc' = "locate"
    /\ UNCHANGED <<agentVars, ep, position, state_key, done, total, best_reward,
                   move, returned, error, data, call, Qprev, branch, rewardsLog,
                   epsLog, lacking, nMoves, nLearn, chosen, updates, lastRes,
                   fnVars, runVars>>

\* enter_world raises (requests error or raise_for_status); train has no handler
EnterWorldFails ==
    /\ pc = "for"
    /\ ep < episodes
    /\ calls' = Append(calls, Request("enter", world_id, "", Zero))
    /\ pc' = "raised"
    /\ error' = "transport"
    /\ UNCHANGED <<agentVars, ep, position, state_key, done, total, best_reward,
                   move, returned, data, call, Qprev, branch, rewardsLog,
                   epsLog, lacking, nMoves, nLearn, chosen, updates, lastRes,
                   fnVars, runVars>>

\* a state key built from the agent's own world id, not from the result's
KeyOf_own_world(obj, pos) ==
    _state_key(PyTuple(<<PyStr(world_id), tuple(IntList(pos))>>))

\* the state key train builds from a result's world id and position
KeyOf(obj, pos) ==
    _state_key(PyTuple(<<Get(obj, "worldId", PyNone), tuple(IntList(pos))>>))

\* get_location at the start of an episode, the completion flag of the last
\* episode left as it was
GetLocation_keeps_done(loc) ==
    /\ pc = "locate"
    /\ calls' = Append(calls, Request("locate", "", "", Zero))
    /\ position' = Get(loc, "position", <<>>)
    /\ state_key' = KeyOf(loc, position')
    /\ total' = Zero
    /\ rewardsLog' = Append(rewardsLog, <<>>)
    /\ lacking' = ("position" \notin DOMAIN loc)
    /\ lastRes' = loc
    /\ pc' = "while"
    /\ UNCHANGED <<agentVars, ep, best_reward, move, returned, error, data, done,
                   call, Qprev, branch, epsLog, nMoves, nLearn, chosen, updates,
                   fnVars, runVars>>

\* loc = self.client.get_location() ... total = 0
GetLocation(loc) ==
    /\ pc = "locate"
    /\ calls' = Append(calls, Request("locate", "", "", Zero))
    /\ position' = Get(loc, "position", <<>>)
    /\ state_key' = KeyOf(loc, position')
    /\ done' = FALSE
    /\ total' = Zero
    /\ rewardsLog' = Append(rewardsLog, <<>>)
    /\ lacking' = ("position" \notin DOMAIN loc)
    /\ lastRes' = loc
    /\ pc' = "while"
    /\ UNCHANGED <<agentVars, ep, best_reward, move, returned, error, data,
                   call, Qprev, branch, epsLog, nMoves, nLearn, chosen, updates,
                   fnVars, runVars>>

\* get_location raises
GetLocationFails ==
    /\ pc = "locate"
    /\ calls' = Append(calls, Request("locate", "", "", Zero))
    /\ pc' = "raised"
    /\ error' = "transport"
    /\ UNCHANGED <<agentVars, ep, position, state_key, done, total, best_reward,
                   move, returned, data, call, Qprev, branch, rewardsLog,
                   epsLog, lacking, nMoves, nLearn, chosen, updates, lastRes,
                   fnVars, runVars>>

\* while not done: valid = ...; move = ...; the move request is sent
Choose(br, m) ==
    /\ pc = "while"
    /\ ~done
    /\ nMoves < moveCap
    /\ Unpacks(position)
    /\ br \in Branches(epsilon)
    /\ m \in choose_direction(state_key, valid_directions(position, GridSize), br)
    /\ move' = m
    /\ branch' = br
    /\ calls' = Append(calls, Request("move", world_id, m, Zero))
    /\ nMoves' = nMoves + 1
    /\ chosen' = chosen \cup {<<state_key, m>>}
    /\ pc' = "move"
    /\ UNCHANGED <<agentVars, ep, position, state_key, done, total, best_reward,
                   returned, error, data, call, Qprev, rewardsLog, epsLog,
                   lacking, nLearn, updates, lastRes,
                   fnVars, runVars>>

\* valid_directions raises ValueError at "x, y = position"
ChooseRaises ==
    /\ pc = "while"
    /\ ~done
    /\ ~Unpacks(position)
    /\ pc' = "raised"
    /\ error' = "ValueError"
    /\ UNCHANGED <<agentVars, ep, position, state_key, done, total, best_reward,
                   move, returned, data, histVars, fnVars, runVars>>

\* res = make_move(...) returned: the rest of the loop body and, when the
\* episode is over, the two statements that follow the while loop
MakeMove(res) ==
    /\ pc = "move"
    /\ LET reward == Get(res, "reward", Zero)
           isDone == Get(res, "completed", FALSE)
           pos == Get(res, "position", <<>>)
           next_key == KeyOf(res, pos)
       IN  /\ Qprev' = Q
           /\ call' = [key |-> state_key, action |-> move, reward |-> reward,
                       next_key |-> next_key, done |-> isDone]
           /\ nLearn' = nLearn + 1
           /\ Q' = learn(state_key, move, reward, next_key, isDone)
           /\ updates' = QSet(updates, <<state_key, move>>,
                               td_update(state_key, move, reward, next_key, isDone))
           /\ lastRes' = res
           /\ done' = isDone
           /\ position' = pos
           /\ state_key' = next_key
           /\ total' = RAdd(total, reward)
           /\ rewardsLog' = [rewardsLog EXCEPT ![Len(rewardsLog)] = Append(@, reward)]
           /\ lacking' = ({"reward", "position"} \ DOMAIN res # {})
           /\ IF isDone
              THEN /\ best_reward' = best_so_far(best_reward, total')
                   /\ epsilon' = decay(epsilon, min_epsilon, decay_rate)
                   /\ epsLog' = Append(epsLog, epsilon')
                   /\ ep' = ep + 1
                   /\ pc' = "for"
              ELSE /\ pc' = "while"
                   /\ UNCHANGED <<best_reward, epsilon, epsLog, ep>>
    /\ UNCHANGED <<world_id, alpha, gamma, episodes, min_epsilon, decay_rate,
                   move, returned, error, data, calls, branch, nMoves, chosen,
                   fnVars, runVars>>

\* a train that catches the failure of make_move and ends the episode
MakeMoveFails_caught ==
    /\ pc = "move"
    /\ error' = "transport"
    /\ best_reward' = best_so_far(best_reward, total)
    /\ epsilon' = decay(epsilon, min_epsilon, decay_rate)
    /\ epsLog' = Append(epsLog, epsilon')
    /\ ep' = ep + 1
    /\ pc' = "for"
    /\ UNCHANGED <<world_id, alpha, gamma, episodes, min_epsilon, decay_rate, Q,
                   position, state_key, done, total, move, returned, data,
                   calls, call, Qprev, branch, rewardsLog, lacking, nMoves,
                   nLearn, chosen, updates, lastRes,
                   fnVars, runVars>>

\* make_move raises
MakeMoveFails ==
    /\ pc = "move"
    /\ pc' = "raised"
    /\ error' = "transport"
    /\ UNCHANGED <<agentVars, ep, position, state_key, done, total, best_reward,
                   move, returned, data, histVars, fnVars, runVars>>

\* after the for loop: store_points(self.world_id, best_reward); return
StorePoints ==
    /\ pc = "for"
    /\ ep >= episodes
    /\ data' = store_points(data, world_id, best_reward)
    /\ calls' = Append(calls, Request("store", world_id, "", best_reward))
    /\ returned' = best_reward
    /\ pc' = "returned"
    /\ UNCHANGED <<agentVars, ep, position, state_key, done, total, best_reward,
                   move, error, call, Qprev, branch, rewardsLog, epsLog,
                   lacking, nMoves, nLearn, chosen, updates, lastRes,
                   fnVars, runVars>>

\* train() against a world whose get_location answers are in LR and whose
\* make_move answers are in MR
Train(LR, MR) ==
    \/ EnterWorld
    \/ EnterWorldFails
    \/ \E loc \in LR : GetLocation(loc)
    \/ GetLocationFails
    \/ \E br \in {"explore", "exploit"}, m \in Range(Directions) : Choose(br, m)
    \/ ChooseRaises
    \/ \E res \in MR : MakeMove(res)
    \/ MakeMoveFails
    \/ StorePoints

-----------------------------------------------------------------------------
(* Spec: train against a world that answers anything *)

\* the world the agent is constructed for
WorldId == "1"

\* positions the world reports: two corners of the 40 x 40 grid
Positions == {<<0, 0>>, <<GridSize - 1, 0>>}

\* rewards the world gives
Rewards == {<<1, 1>>, <<-1, 1>>}

\* results of get_location: with a position, and lacking it
LocateResults ==
    {[worldId |-> PyStr(WorldId), position |-> p] : p \in Positions}
    \cup {[worldId |-> PyStr(WorldId)]}

\* results of make_move: complete, lacking the reward, lacking the position
MoveResults ==
    {[worldId |-> PyStr(WorldId), position |-> p, reward |-> r, completed |-> c] :
        p \in Positions, r \in Rewards, c \in BOOLEAN}
    \cup {[worldId |-> PyStr(WorldId), position |-> <<0, 0>>, completed |-> c] :
        c \in BOOLEAN}
    \cup {[worldId |-> PyStr(WorldId), reward |-> One, completed |-> c] :
        c \in BOOLEAN}

\* the points file holds {} when the client created it
EmptyFile == [t \in {} |-> Zero]

Half == <<1, 2>>
Quarter == <<1, 4>>

Init ==
    /\ \E n \in 1..MaxEpisodes :
          AgentInit(WorldId, Half, <<9, 10>>, One, n, Quarter, Half)
    /\ TrainInit
    /\ data = EmptyFile
    /\ HistInit
    /\ RunInit(WorldId, MaxMoves)
    /\ FnIdle

Next == Train(LocateResults, MoveResults)

Spec == Init /\ [][Next]_vars

-----------------------------------------------------------------------------
(* SpecDecay: train under every exploration configuration *)

EpsilonValues == {<<-1, 2>>, Zero, Quarter, Half, One}
MinEpsilonValues == {<<-1, 1>>, Zero, Quarter, Half}
DecayValues == {<<-1, 2>>, Zero, Half, One, <<3, 2>>}

DecayLocateResults ==
    {[worldId |-> PyStr(WorldId), position |-> <<0, 0>>], [worldId |-> PyStr(WorldId)]}

DecayMoveResults ==
    {[worldId |-> PyStr(WorldId), position |-> <<0, 0>>, reward |-> One,
      completed |-> c] : c \in BOOLEAN}

InitDecay ==
    /\ \E e \in EpsilonValues, me \in MinEpsilonValues, dr \in DecayValues :
          AgentInit(WorldId, Half, <<9, 10>>, e, MaxEpisodes, me, dr)
    /\ TrainInit
    /\ data = EmptyFile
    /\ HistInit
    /\ RunInit(WorldId, MaxMoves)
    /\ FnIdle

NextDecay == Train(DecayLocateResults, DecayMoveResults)

SpecDecay == InitDecay /\ [][NextDecay]_vars

-----------------------------------------------------------------------------
(* SpecLearn: learn called with arbitrary arguments *)

LearnKeys ==
    {_state_key(PyTuple(<<PyStr(WorldId), tuple(IntList(p))>>)) :
        p \in {<<0, 0>>, <<0, 1>>}}

LearnRewards == {<<1, 1>>, <<-1, 1>>}

InitLearn ==
    /\ \E a \in {Half, <<1, 10>>}, g \in {<<9, 10>>, Half} :
          AgentInit(WorldId, a, g, One, MaxEpisodes, Quarter, Half)
    /\ TrainInit
    /\ data = EmptyFile
    /\ HistInit
    /\ RunInit(WorldId, MaxMoves)
    /\ FnIdle

\* self.learn(key, action, reward, next_key, isDone)
CallLearn(key, action, reward, next_key, isDone) ==
    /\ nLearn < MaxLearnCalls
    /\ Qprev' = Q
    /\ call' = [key |-> key, action |-> action, reward |-> reward,
                next_key |-> next_key, done |-> isDone]
    /\ nLearn' = nLearn + 1
    /\ Q' = learn(key, action, reward, next_key, isDone)
    /\ updates' = QSet(updates, <<key, action>>,
                        td_update(key, action, reward, next_key, isDone))
    /\ UNCHANGED <<world_id, alpha, gamma, epsilon, episodes, min_epsilon,
                   decay_rate, trainVars, data, calls, branch, rewardsLog,
                   epsLog, lacking, nMoves, chosen, lastRes, fnVars, runVars>>

NextLearn ==
    \E key \in LearnKeys, action \in Range(Directions), reward \in LearnRewards,
       next_key \in LearnKeys, isDone \in BOOLEAN :
        CallLearn(key, action, reward, next_key, isDone)

SpecLearn == InitLearn /\ [][NextLearn]_vars

-----------------------------------------------------------------------------
(* SpecDirs: valid_directions called on every position of every grid *)

GridSizes == 1..MaxGrid \cup {GridSize}

InitDirs ==
    /\ AgentInit(WorldId, Half, <<9, 10>>, One, MaxEpisodes, Quarter, Half)
    /\ TrainInit
    /\ data = EmptyFile
    /\ HistInit
    /\ RunInit(WorldId, MaxMoves)
    /\ \E n \in GridSizes : \E x \in -1..n, y \in -1..n :
          fnArgs = [position |-> <<x, y>>, grid_size |-> n]
    /\ fnResult = NotCalled

\* self.valid_directions(position, grid_size)
CallValidDirections ==
    /\ ~fnResult.called
    /\ fnResult' = [called |-> TRUE,
                    value |-> valid_directions(fnArgs.position, fnArgs.grid_size)]
    /\ UNCHANGED <<agentVars, trainVars, data, histVars, fnArgs, runVars>>

NextDirs == CallValidDirections

SpecDirs == InitDirs /\ [][NextDirs]_vars

-----------------------------------------------------------------------------
(* SpecKey: _state_key called on two observations *)

Inner == {PyTuple(<<PyInt(3), PyInt(4)>>), PyList(<<PyInt(3), PyInt(4)>>)}

Observations ==
    {PyInt(5), PyStr(WorldId), PyNone}
    \cup {PyTuple(<<PyInt(5), p>>) : p \in Inner}
    \cup {PyList(<<PyInt(5), p>>) : p \in Inner}
    \cup {PyTuple(<<PyInt(5), p, PyInt(7)>>) : p \in Inner}

InitKey ==
    /\ AgentInit(WorldId, Half, <<9, 10>>, One, MaxEpisodes, Quarter, Half)
    /\ TrainInit
    /\ data = EmptyFile
    /\ HistInit
    /\ RunInit(WorldId, MaxMoves)
    /\ \E a \in Observations, b \in Observations : fnArgs = <<a, b>>
    /\ fnResult = NotCalled

\* self._state_key(a) and self._state_key(b)
CallStateKey ==
    /\ ~fnResult.called
    /\ fnResult' = [called |-> TRUE,
                    value |-> <<_state_key(fnArgs[1]), _state_key(fnArgs[2])>>]
    /\ UNCHANGED <<agentVars, trainVars, data, histVars, fnArgs, runVars>>

NextKey == CallStateKey

SpecKey == InitKey /\ [][NextKey]_vars

-----------------------------------------------------------------------------
(* Claims about learn, under SpecLearn *)

\* the entry of the pair acted on, before and after the last learn call
OldValue == QGet(Qprev, <<call.key, call.action>>)
NewValue == QGet(Q, <<call.key, call.action>>)

\* the entries of the next state of the last learn call, before the call
NextEntries ==
    [i \in 1..Len(Directions) |-> QGet(Qprev, <<call.next_key, Directions[i]>>)]

\* C1: after learn(s, a, r, s2, done) with done true, the entry of (s, a) is
\* old + alpha * (r - old), old being the entry before the call (0 if
\* absent), whatever the entries of s2 and whatever gamma.
C1_TerminalUpdate ==
    (call # NoCall /\ call.done) =>
        NewValue = RAdd(OldValue, RMul(alpha, RSub(call.reward, OldValue)))

\* a terminal update of an entry that is not 0, with an entry of s2 not 0
C1_Witness ==
    /\ call # NoCall
    /\ call.done
    /\ OldValue # Zero
    /\ MaxOfSeq(NextEntries) # Zero
    /\ NewValue # OldValue

\* C2: after learn(s, a, r, s2, done) with done false, the entry of (s, a) is
\* old + alpha * (r + gamma * m - old), m being the maximum over all four
\* directions of the entries of (s2, d), absent entries counting 0.
C2_NonTerminalUpdate ==
    (call # NoCall /\ ~call.done) =>
        NewValue = RAdd(OldValue,
                        RMul(alpha, RSub(RAdd(call.reward,
                                              RMul(gamma, MaxOfSeq(NextEntries))),
                                         OldValue)))

\* a non-terminal update whose maximum is positive and is reached only at a
\* direction that is not legal at s2
C2_Witness ==
    /\ call # NoCall
    /\ ~call.done
    /\ RLess(Zero, MaxOfSeq(NextEntries))
    /\ \A i \in 1..Len(Directions) :
          NextEntries[i] = MaxOfSeq(NextEntries) =>
              Directions[i] \notin
                  Range(valid_directions(PositionOf(call.next_key), GridSize))

\* C3: learn(s, a, r, s2, done) writes the entry of (s, a) and nothing else:
\* every other entry keeps its value, none is removed, none is created.
C3_Frame ==
    call # NoCall =>
        /\ DOMAIN Q = DOMAIN Qprev \cup {<<call.key, call.action>>}
        /\ \A k \in DOMAIN Qprev \ {<<call.key, call.action>>} : Q[k] = Qprev[k]

\* a non-terminal update, made when another entry exists, that leaves the
\* looked-up next state without any entry
C3_Witness ==
    /\ call # NoCall
    /\ ~call.done
    /\ DOMAIN Qprev \ {<<call.key, call.action>>} # {}
    /\ <<call.key, call.action>> \notin DOMAIN Qprev
    /\ \A i \in 1..Len(Directions) : <<call.next_key, Directions[i]>> \notin DOMAIN Q

-----------------------------------------------------------------------------
(* Claims about the exploration rate, under SpecDecay *)

\* the rate never rises from one episode to the next
EpsilonNonIncreasing ==
    \A i \in 1..(Len(epsLog) - 1) : RLeq(epsLog[i + 1], epsLog[i])

\* no decay takes the rate below the configured minimum
EpsilonFloor ==
    \A i \in 2..Len(epsLog) : RLeq(min_epsilon, epsLog[i])

\* 0 <= min_epsilon <= starting epsilon and 0 <= decay_rate <= 1
SoundExploration ==
    /\ RLeq(Zero, min_epsilon)
    /\ RLeq(min_epsilon, epsLog[1])
    /\ RLeq(Zero, decay_rate)
    /\ RLeq(decay_rate, One)

\* C4 as claimed: for every configuration of starting rate, minimum and decay
\* factor, the rate never drops below the minimum and never rises from one
\* episode to the next.
C4_Original ==
    /\ epsilon = epsLog[Len(epsLog)]
    /\ EpsilonFloor
    /\ EpsilonNonIncreasing

\* C4 as amended: for every configuration no decay takes the rate below the
\* minimum; when 0 <= min_epsilon <= starting epsilon and 0 <= decay_rate <= 1
\* the rate is at no time below the minimum and never rises from one episode
\* to the next.
C4_ExplorationFloor ==
    /\ epsilon = epsLog[Len(epsLog)]
    /\ EpsilonFloor
    /\ SoundExploration =>
          /\ RLeq(min_epsilon, epsLog[1])
          /\ EpsilonNonIncreasing

\* two episodes run: the rate fell in the first and the floor held it in the
\* second
C4_Witness ==
    /\ SoundExploration
    /\ Len(epsLog) = 3
    /\ RLess(epsLog[2], epsLog[1])
    /\ RLess(RMul(epsLog[2], decay_rate), min_epsilon)
    /\ epsLog[3] = min_epsilon

-----------------------------------------------------------------------------
(* Claims about valid_directions, under SpecDirs *)

\* where a direction takes a position: N and S change the first coordinate,
\* W and E the second
Moved(pos, d) ==
    CASE d = "N" -> <<pos[1] - 1, pos[2]>>
      [] d = "S" -> <<pos[1] + 1, pos[2]>>
      [] d = "W" -> <<pos[1], pos[2] - 1>>
      [] d = "E" -> <<pos[1], pos[2] + 1>>

InGrid(pos, n) == pos[1] \in 0..(n - 1) /\ pos[2] \in 0..(n - 1)

\* C5: at a position of a grid of size >= 2, valid_directions returns exactly
\* the directions whose move stays in the grid, each once; on the grid of
\* size 40 that is {S, E} at (0,0), {N, W} at (39,39) and {N, E} at (39,0).
C5_LegalDirections ==
    (/\ fnResult.called
     /\ fnArgs.grid_size >= 2
     /\ InGrid(fnArgs.position, fnArgs.grid_size)) =>
        LET legal == fnResult.value
            pos == fnArgs.position
            n == fnArgs.grid_size
        IN  /\ Range(legal) = {d \in Range(Directions) : InGrid(Moved(pos, d), n)}
            /\ Len(legal) = Cardinality(Range(legal))
            /\ (n = 40 /\ pos = <<0, 0>>) => Range(legal) = {"S", "E"}
            /\ (n = 40 /\ pos = <<39, 39>>) => Range(legal) = {"N", "W"}
            /\ (n = 40 /\ pos = <<39, 0>>) => Range(legal) = {"N", "E"}

\* valid_directions has answered for the corner (39, 0) of the 40 x 40 grid
C5_Witness ==
    /\ fnResult.called
    /\ fnArgs.grid_size = 40
    /\ fnArgs.position = <<39, 0>>
    /\ fnResult.value = <<"N", "E">>

-----------------------------------------------------------------------------
(* Claims about _state_key, under SpecKey *)

\* equal by value: a list and a tuple with the same items count as equal
RECURSIVE SameValue(_, _)
SameValue(a, b) ==
    IF a.t \in {"list", "tuple"} /\ b.t \in {"list", "tuple"}
    THEN /\ Len(a.v) = Len(b.v)
         /\ \A i \in 1..Len(a.v) : SameValue(a.v[i], b.v[i])
    ELSE a = b

\* C6: observations that are equal by value get equal keys whatever sequence
\* type they arrive in, (5, (3,4)) and (5, [3,4]) among them, and all keys
\* have one arity, be the observation a pair, a longer sequence or a scalar.
C6_Normalization ==
    fnResult.called =>
        /\ SameValue(fnArgs[1], fnArgs[2]) => fnResult.value[1] = fnResult.value[2]
        /\ Len(fnResult.value[1].v) = Len(fnResult.value[2].v)

\* C6, the example alone: (5, (3,4)) and (5, [3,4]) get the same key
C6_Example ==
    (/\ fnResult.called
     /\ fnArgs[1] = PyTuple(<<PyInt(5), PyTuple(<<PyInt(3), PyInt(4)>>)>>)
     /\ fnArgs[2] = PyTuple(<<PyInt(5), PyList(<<PyInt(3), PyInt(4)>>)>>)) =>
        fnResult.value[1] = fnResult.value[2]

-----------------------------------------------------------------------------
(* Claims about choose_direction, under Spec *)

\* the legal actions at the current position, and the best of their entries
LegalHere == valid_directions(position, GridSize)
BestHere ==
    MaxOfSeq([i \in 1..Len(LegalHere) |-> QGet(Q, <<state_key, LegalHere[i]>>)])

\* the action chosen is one of the legal list and, on the exploitation
\* branch, its entry is the maximum over that list
ChosenIsLegalAndBest ==
    pc = "move" =>
        /\ move \in Range(LegalHere)
        /\ branch = "exploit" => QGet(Q, <<state_key, move>>) = BestHere

\* where exploitation can happen, every legal action of maximum entry can be
\* the one chosen
EveryBestIsPossible ==
    (pc = "while" /\ Unpacks(position) /\ nMoves < MaxMoves
        /\ RLess(epsilon, One)) =>
        \A d \in Range(LegalHere) :
            QGet(Q, <<state_key, d>>) = BestHere => ENABLED Choose("exploit", d)

\* C7: choose_direction returns a member of the legal list; on the
\* exploitation branch the returned action's entry (0 if absent) is the
\* maximum over the legal list and every legal action attaining it is a
\* possible result; the value table is not modified.
C7_Choice ==
    /\ [](ChosenIsLegalAndBest /\ EveryBestIsPossible)
    /\ [][pc = "while" => Q' = Q]_vars

\* exploitation picked the only action of maximum entry, which is positive
\* and is not the first action of the legal list
C7_Witness ==
    /\ pc = "move"
    /\ branch = "exploit"
    /\ RLess(Zero, BestHere)
    /\ move # LegalHere[1]
    /\ \A d \in Range(LegalHere) : d # move => QGet(Q, <<state_key, d>>) # BestHere

-----------------------------------------------------------------------------
(* Claims about train, under Spec *)

\* the cumulative reward of each episode begun: the sum of its moves' rewards
EpisodeTotals == [i \in 1..Len(rewardsLog) |-> SumOfSeq(rewardsLog[i])]

\* the store requests issued so far
IsStore(c) == c.op = "store"
Stores == SelectSeq(calls, IsStore)

\* C8: when train returns, the value returned is the maximum over the
\* episodes run of the episode's cumulative reward, and store has been called
\* exactly once, after the last episode, with the agent's world id and that
\* value; before that, store has not been called.
C8_BestReward ==
    /\ pc = "returned" =>
          /\ Len(rewardsLog) = episodes
          /\ returned = MaxOfSeq(EpisodeTotals)
          /\ Stores = <<Request("store", world_id, "", returned)>>
          /\ calls[Len(calls)] = Request("store", world_id, "", returned)
          /\ data[TeamId].by_world[world_id] = returned
    /\ pc # "returned" => (Stores = <<>> /\ data = EmptyFile)

\* train returned after two episodes, the first of which was the better one
C8_Witness ==
    /\ pc = "returned"
    /\ Len(rewardsLog) = 2
    /\ RLess(EpisodeTotals[2], EpisodeTotals[1])
    /\ returned = EpisodeTotals[1]

\* C9: a failure of enter, locate or move is not caught: train stops at that
\* call, with no further request, no further value update, no decay for the
\* interrupted episode and no store.
C9_FailFast ==
    /\ [](error = "transport" =>
            /\ pc = "raised"
            /\ calls[Len(calls)].op \in {"enter", "locate", "move"}
            /\ Stores = <<>>
            /\ data = EmptyFile
            /\ Len(epsLog) = ep + 1
            /\ ep < episodes
            /\ ~ENABLED Next)
    /\ [][error' = "transport" =>
            /\ Q' = Q
            /\ epsilon' = epsilon
            /\ ep' = ep
            /\ nLearn' = nLearn]_vars

\* a move failed in the middle of an episode, after an update was applied
C9_Witness ==
    /\ error = "transport"
    /\ pc = "raised"
    /\ calls[Len(calls)].op = "move"
    /\ nLearn = 1
    /\ nMoves = 2
    /\ Q # EmptyQ
    /\ ep = 0

\* C10: a locate or move result that lacks the reward or the position is a
\* benign default: the loop goes on to its next step and does not raise.
C10_MissingFieldIsBenign ==
    lacking => ~(pc = "raised" /\ error = "ValueError")

-----------------------------------------------------------------------------
(* C11: the value table and the pairs chosen *)

\* C11 as stated: at every point of a run of train, every (state, action)
\* pair chosen so far has an entry in the value table, equal to the last
\* update computed for the pair, also while a move is in flight and after a
\* move failed.
C11_Original ==
    \A pair \in chosen :
        /\ pair \in DOMAIN Q
        /\ pair \in DOMAIN updates
        /\ Q[pair] = updates[pair]

\* C11, amended: at every point of a run of train the value table holds an
\* entry exactly for the pairs updated so far, each equal to the last update
\* computed for its pair and each a pair that was chosen; a chosen pair without
\* an entry is the pair of the move in flight or of the move that failed.
C11_ValueTable ==
    /\ DOMAIN Q = DOMAIN updates
    /\ \A pair \in DOMAIN Q : Q[pair] = updates[pair]
    /\ DOMAIN Q \subseteq chosen
    /\ \A pair \in chosen \ DOMAIN Q :
           /\ pc \in {"move", "raised"}
           /\ pair = <<state_key, move>>

\* a move failed after an earlier pair was updated: the failed move's pair
\* was chosen and has no entry
C11_Witness ==
    /\ error = "transport"
    /\ calls[Len(calls)].op = "move"
    /\ DOMAIN Q # {}
    /\ <<state_key, move>> \in chosen \ DOMAIN Q

-----------------------------------------------------------------------------
(* SpecStub: train against the stub world of the end-to-end scenario *)

\* get_location of the stub: position (0,0)
StubLocate == [worldId |-> PyStr(WorldId), position |-> <<0, 0>>]

\* make_move of the stub: position (0,0), reward 1, completed, for any action
StubMove ==
    [worldId |-> PyStr(WorldId), position |-> <<0, 0>>, reward |-> One,
     completed |-> TRUE]

\* 3 episodes with alpha = 0.5 and gamma = 0.9
InitStub ==
    /\ \E e \in {Zero, Half, One} :
          AgentInit(WorldId, Half, <<9, 10>>, e, 3, Quarter, Half)
    /\ TrainInit
    /\ data = EmptyFile
    /\ HistInit
    /\ RunInit(WorldId, 3)
    /\ FnIdle

\* the stub answers every request
NextStub ==
    \/ EnterWorld
    \/ GetLocation(StubLocate)
    \/ \E br \in {"explore", "exploit"}, m \in Range(Directions) : Choose(br, m)
    \/ MakeMove(StubMove)
    \/ StorePoints

SpecStub == InitStub /\ [][NextStub]_vars

\* the state key (world_id, (0,0))
StubKey == _state_key(PyTuple(<<PyStr(WorldId), tuple(IntList(<<0, 0>>))>>))

\* how many times action m was submitted
Visits(m) == Cardinality({i \in 1..Len(calls) :
                            calls[i].op = "move" /\ calls[i].move = m})

\* the total length of the sequences of a sequence
RECURSIVE SumLen(_)
SumLen(ss) == IF ss = <<>> THEN 0 ELSE Len(Head(ss)) + SumLen(Tail(ss))

\* the operations requested, in order
Ops == [i \in 1..Len(calls) |-> calls[i].op]

\* C12: against the stub world, 3 episodes with alpha = 0.5 and gamma = 0.9
\* return best reward 1; each episode makes exactly one move; the value table
\* ends with one nonzero entry per action selected at (world_id, (0,0)) and
\* nothing else, worth 0.5, 0.75 or 0.875 after one, two or three visits.
C12_StubScenario ==
    pc = "returned" =>
        /\ returned = One
        /\ Ops = <<"enter", "locate", "move", "enter", "locate", "move",
                   "enter", "locate", "move", "store">>
        /\ rewardsLog = <<<<One>>, <<One>>, <<One>>>>
        /\ DOMAIN Q = {<<StubKey, m>> : m \in {d \in Range(Directions) : Visits(d) > 0}}
        /\ \A pair \in DOMAIN Q :
              /\ Q[pair] # Zero
              /\ RLess(Q[pair], One)
              /\ Visits(pair[2]) = 1 => Q[pair] = <<1, 2>>
              /\ Visits(pair[2]) = 2 => Q[pair] = <<3, 4>>
              /\ Visits(pair[2]) = 3 => Q[pair] = <<7, 8>>

\* the run returned having visited one action twice and another once
C12_Witness ==
    /\ pc = "returned"
    /\ \E m1, m2 \in Range(Directions) : Visits(m1) = 2 /\ Visits(m2) = 1

-----------------------------------------------------------------------------
(* SpecGrid: train in worlds whose grid is smaller than 40 x 40 *)

\* positions the world reports: the far corners of the n x n grids, n >= 2
GridPositions == {<<n - 1, n - 1>> : n \in GridSizes \ {1, GridSize}}

GridLocateResults ==
    {[worldId |-> PyStr(WorldId), position |-> p] : p \in GridPositions}
    \cup {[worldId |-> PyStr(WorldId)]}

GridMoveResults ==
    {[worldId |-> PyStr(WorldId), position |-> p, reward |-> One, completed |-> c] :
        p \in GridPositions, c \in BOOLEAN}

NextGrid == Train(GridLocateResults, GridMoveResults)

\* the agent is constructed as in Spec: __init__ takes no grid size
SpecGrid == Init /\ [][NextGrid]_vars

\* C13: whatever the grid size n >= 2 of the world, from an in-grid position
\* train never submits a direction that moves the agent off the n x n grid.
C13_GridSizeGoverns ==
    \A n \in GridSizes \ {1} :
        (pc = "move" /\ Unpacks(position) /\ InGrid(position, n))
            => InGrid(Moved(position, move), n)

-----------------------------------------------------------------------------
(* C14: the order of the calls of an episode *)

\* the calls made so far are a start of (enter locate move+)* store
CallOrder ==
    \A i \in 1..Len(Ops) :
        /\ Ops[i] = "enter" => (i = 1 \/ Ops[i - 1] = "move")
        /\ Ops[i] = "locate" => (i > 1 /\ Ops[i - 1] = "enter")
        /\ Ops[i] = "move" => (i > 1 /\ Ops[i - 1] \in {"locate", "move"})
        /\ Ops[i] = "store" => (i > 1 /\ Ops[i - 1] = "move" /\ i = Len(Ops))

\* an episode that ended has submitted at least one move
EndedEpisodesMoved ==
    /\ Len(rewardsLog) >= ep
    /\ \A e \in 1..ep : Len(rewardsLog[e]) >= 1

\* every move result received has had its update; one move at most is in flight
OneUpdatePerResult ==
    /\ nLearn = SumLen(rewardsLog)
    /\ nMoves \in {nLearn, nLearn + 1}
    /\ nMoves = nLearn + 1 <=>
           (pc = "move" \/ (error = "transport" /\ calls[Len(calls)].op = "move"))

\* C14: in every episode the calls are enter, locate, then one or more moves;
\* an episode that ends has submitted at least one move; exactly one update is
\* applied after each move result and before the next move; after a completed
\* move no move is submitted until the next episode's enter and locate.
C14_EpisodeOrder ==
    /\ [](CallOrder /\ EndedEpisodesMoved /\ OneUpdatePerResult)
    /\ [](done => pc \notin {"while", "move"})
    /\ [][/\ nMoves' = nMoves + 1 =>
              (~done /\ nLearn = nMoves /\ nLearn' = nLearn)
          /\ nLearn' # nLearn =>
              (nLearn' = nLearn + 1 /\ nMoves' = nMoves /\ pc = "move")
          /\ (done /\ ~done') =>
              (/\ Ops'[Len(Ops')] = "locate"
               /\ Ops[Len(Ops)] = "enter")]_vars

\* a second episode has begun its moves after a first one of two moves
C14_Witness ==
    /\ Ops = <<"enter", "locate", "move", "move", "enter", "locate">>
    /\ pc = "while"
    /\ nLearn = 2
    /\ ep = 1

-----------------------------------------------------------------------------
(* SpecLive: train against a world where no call fails and every episode
   is completed in the end *)

LiveLocateResults == {[worldId |-> PyStr(WorldId), position |-> <<0, 0>>]}

LiveMoveResults ==
    {[worldId |-> PyStr(WorldId), position |-> p, reward |-> One, completed |-> c] :
        p \in Positions, c \in BOOLEAN}

\* the world may leave a move uncompleted while the moves the model lets the
\* run submit still suffice to complete this episode and the ones to come
MayAnswer(res) == res.completed \/ moveCap - nMoves >= episodes - ep

InitLive ==
    /\ \E n \in 1..MaxEpisodes :
          /\ AgentInit(WorldId, Half, <<9, 10>>, One, n, Quarter, Half)
          /\ RunInit(WorldId, n + MaxMoves - 1)
    /\ TrainInit
    /\ data = EmptyFile
    /\ HistInit
    /\ FnIdle

NextLive ==
    \/ EnterWorld
    \/ \E loc \in LiveLocateResults : GetLocation(loc)
    \/ \E br \in {"explore", "exploit"}, m \in Range(Directions) : Choose(br, m)
    \/ \E res \in LiveMoveResults : MayAnswer(res) /\ MakeMove(res)
    \/ StorePoints

\* make_move returns: the step from the request to the rest of the loop body
MoveAnswered == pc = "move" /\ pc' \in {"while", "for"}

\* train keeps running and the world answers every request
SpecLive ==
    /\ InitLive
    /\ [][NextLive]_vars
    /\ WF_vars(EnterWorld)
    /\ WF_vars(\E loc \in LiveLocateResults : GetLocation(loc))
    /\ WF_vars(\E br \in {"explore", "exploit"}, m \in Range(Directions) : Choose(br, m))
    /\ WF_pc(MoveAnswered)
    /\ WF_vars(StorePoints)

\* how many times operation op was requested
Requested(op) == Cardinality({i \in 1..Len(Ops) : Ops[i] = op})

\* C15: an episode ends only when a move result carries the completion flag;
\* when no call fails and every episode is completed in the end, train
\* terminates, having issued enter exactly `episodes` times and decayed the
\* exploration rate exactly `episodes` times; train does not terminate with an
\* episode whose last move result lacked the flag.
C15_Termination ==
    /\ <>(pc = "returned")
    /\ [](pc = "returned" =>
            /\ Requested("enter") = episodes
            /\ Len(epsLog) = episodes + 1
            /\ ep = episodes
            /\ Len(rewardsLog) = episodes
            /\ call.done)
    /\ [][/\ ep' # ep =>
              (pc = "move" /\ call'.done /\ done' /\ ep' = ep + 1)
          /\ (pc = "move" /\ pc' = "while") => (~call'.done /\ ep' = ep)
          /\ pc' = "returned" => (pc = "for" /\ ep = episodes)]_vars

\* train returned after an episode that took more than one move
C15_Witness ==
    /\ pc = "returned"
    /\ nMoves > episodes
    /\ Requested("enter") = episodes

-----------------------------------------------------------------------------
(* SpecMain: main(), from the operator's input to the final score *)

\* world ids the operator may type, and the ones a location report may hold
TypedIds == {"1", "2"}
NoWorld == "-1"

\* get_location() results: in no world, or in one of the worlds
MainLocateResults ==
    {[worldId |-> PyStr(w), position |-> <<0, 0>>] : w \in TypedIds \cup {NoWorld}}

\* make_move() results
MainMoveResults ==
    {[worldId |-> PyStr(w), position |-> <<0, 0>>, reward |-> One, completed |-> c] :
        w \in TypedIds, c \in BOOLEAN}

\* main() started, the operator has typed the world id; the agent is built
\* later, with the defaults of __init__ (episodes bounded by the model)
InitMain ==
    /\ \E n \in 1..MaxEpisodes :
          AgentInit("", <<1, 10>>, <<9, 10>>, One, n, <<1, 100>>, <<199, 200>>)
    /\ pc = "main"
    /\ ep = 0
    /\ position = <<>>
    /\ state_key = PyNone
    /\ done = FALSE
    /\ total = Zero
    /\ best_reward = NegInf
    /\ move = ""
    /\ returned = <<>>
    /\ error = "none"
    /\ data = EmptyFile
    /\ HistInit
    /\ \E w \in TypedIds : RunInit(w, MaxMoves)
    /\ FnIdle

\* status = client.get_all_status(world_id);
\* agent = QLearningAgent(client, status.get("location", {}).get("worldId"));
\* train() is entered
GetAllStatus(loc) ==
    /\ pc = "main"
    /\ calls' = calls
                \o <<Request("runs", "", "", Zero), Request("locate", "", "", Zero)>>
                \o (IF loc.worldId = PyStr(NoWorld)
                    THEN <<Request("enter", entered_id, "", Zero)>>
                    ELSE <<>>)
    /\ lastRes' = loc
    /\ world_id' = loc.worldId.v
    /\ pc' = "for"
    /\ UNCHANGED <<alpha, gamma, epsilon, episodes, min_epsilon, decay_rate, Q,
                   ep, position, state_key, done, total, best_reward, move,
                   returned, error, data, call, Qprev, branch, rewardsLog,
                   epsLog, lacking, nMoves, nLearn, chosen, updates,
                   fnVars, runVars>>

\* client.get_score() after train returned
GetScore ==
    /\ pc = "returned"
    /\ calls' = Append(calls, Request("score", "", "", Zero))
    /\ pc' = "exited"
    /\ UNCHANGED <<agentVars, ep, position, state_key, done, total, best_reward,
                   move, returned, error, data, call, Qprev, branch, rewardsLog,
                   epsLog, lacking, nMoves, nLearn, chosen, updates, lastRes,
                   fnVars, runVars>>

NextMain ==
    \/ \E loc \in MainLocateResults : GetAllStatus(loc)
    \/ EnterWorld
    \/ \E loc \in MainLocateResults : GetLocation(loc)
    \/ \E br \in {"explore", "exploit"}, m \in Range(Directions) : Choose(br, m)
    \/ \E res \in MainMoveResults : MakeMove(res)
    \/ StorePoints
    \/ GetScore

SpecMain == InitMain /\ [][NextMain]_vars

\* C16: in the run driven by main, every enter request and every move request
\* names the world id the operator entered, whether the first location report
\* placed the agent in a world or in none ("-1").
C16_TargetWorld ==
    \A i \in 1..Len(calls) :
        calls[i].op \in {"enter", "move"} => calls[i].world = entered_id

-----------------------------------------------------------------------------
(* C17: the trajectory of an episode *)

\* the key (world id, position) of a result that holds both
ResultKey(res) ==
    PyTuple(<<res.worldId,
              PyTuple([i \in 1..Len(res.position) |-> PyInt(res.position[i])])>>)

\* C17: within an episode the pair updated after a move is the state key held
\* when the action was selected together with the action submitted; the next
\* key of the update is built from the world id and position of the move's
\* result; the key used to select the following action is that next key; the
\* first key of an episode is built from the locate result.
C17_Trajectory ==
    /\ [](pc \in {"while", "move"} =>
            /\ state_key = ResultKey(lastRes)
            /\ Len(rewardsLog[Len(rewardsLog)]) >= 1 => state_key = call.next_key
            /\ pc = "move" => <<state_key, move>> \in chosen)
    /\ [][/\ nMoves' # nMoves =>
              (/\ state_key' = state_key
               /\ chosen' = chosen \cup {<<state_key, move'>>}
               /\ lastRes' = lastRes)
          /\ nLearn' # nLearn =>
              (/\ call'.key = state_key
               /\ call'.action = move
               /\ call'.next_key = ResultKey(lastRes')
               /\ state_key' = call'.next_key
               /\ DOMAIN Q' = DOMAIN Q \cup {<<state_key, move>>})
          /\ (pc = "locate" /\ pc' = "while") =>
              (/\ state_key' = ResultKey(lastRes')
               /\ calls'[Len(calls')].op = "locate")]_vars

\* a second update of an episode, made from a state of another world than the
\* agent's own
C17_Witness ==
    /\ nLearn = 2
    /\ Len(rewardsLog) = 1
    /\ Len(rewardsLog[1]) = 2
    /\ call.key # call.next_key
    /\ call.key.v[1] # PyStr(world_id)

-----------------------------------------------------------------------------
(* C18: valid_directions never returns an empty list *)

\* C18: for any pair of integers and any grid size >= 1 valid_directions
\* returns at least one direction, all of the fixed action set; where no
\* direction is legal, as at (0,0) on a grid of size 1, it returns the full
\* action set; so choose_direction has at least one candidate.
C18_NeverEmpty ==
    (fnResult.called /\ fnArgs.grid_size >= 1) =>
        /\ Len(fnResult.value) >= 1
        /\ Range(fnResult.value) \subseteq Range(Directions)
        /\ (/\ InGrid(fnArgs.position, fnArgs.grid_size)
            /\ \A d \in Range(Directions) :
                   ~InGrid(Moved(fnArgs.position, d), fnArgs.grid_size))
             => fnResult.value = Directions
        /\ \A br \in {"explore", "exploit"} :
               choose_direction(state_key, fnResult.value, br) # {}

\* valid_directions was called at (0,0) on a grid of size 1
C18_Witness ==
    /\ fnResult.called
    /\ fnArgs = [position |-> <<0, 0>>, grid_size |-> 1]
    /\ fnResult.value = Directions

-----------------------------------------------------------------------------
(* C19: the value table persists across episodes *)

\* C19: the value table is empty until the first update and is never reset or
\* shrunk during train: the set of its keys never loses a pair, the table
\* changes only in a call of learn, which changes the updated pair alone, and
\* the value an update reads for its pair is the one the last update of that
\* pair wrote, in whatever episode (0 when there was none).
C19_TablePersists ==
    /\ [](nLearn = 0 => Q = EmptyQ)
    /\ [](Q = updates)
    /\ [][/\ DOMAIN Q \subseteq DOMAIN Q'
          /\ Q' # Q => (nLearn' = nLearn + 1 /\ pc = "move")
          /\ nLearn' # nLearn =>
              (/\ Qprev' = Q
               /\ QGet(Qprev', <<call'.key, call'.action>>)
                     = QGet(updates, <<call'.key, call'.action>>)
               /\ DOMAIN Q' = DOMAIN Q \cup {<<call'.key, call'.action>>}
               /\ \A pair \in DOMAIN Q \ {<<call'.key, call'.action>>} :
                      Q'[pair] = Q[pair])]_vars

\* the first update of a second episode has read the value that the first
\* episode wrote for the same pair
C19_Witness ==
    /\ Len(rewardsLog) = 2
    /\ Len(rewardsLog[2]) = 1
    /\ ep = 2
    /\ <<call.key, call.action>> \in DOMAIN Qprev
    /\ Qprev[<<call.key, call.action>>] # Zero
    /\ Q[<<call.key, call.action>>] # Qprev[<<call.key, call.action>>]

-----------------------------------------------------------------------------
(* SpecStore: store_points called again and again on one points file *)

\* how many store_points calls the model makes
MaxStores == 2

\* another team's key in the points file
OtherTeam == "7"

\* the record store_points writes for a team that stored p for world w
TeamRecord(w, p) == [total |-> p, by_world |-> [x \in {w} |-> p]]

\* the points file before the calls: as created, holding another team's
\* record, holding also a record of this team
StoreFiles ==
    {EmptyFile,
     [t \in {OtherTeam} |-> TeamRecord("1", One)],
     [t \in {OtherTeam, TeamId} |->
         IF t = TeamId THEN TeamRecord("2", Half) ELSE TeamRecord("1", One)]}

StoreWorlds == {"1", "2"}
StorePointValues == {One, Half, <<-1, 1>>}

InitStore ==
    /\ AgentInit(WorldId, Half, <<9, 10>>, One, MaxEpisodes, Quarter, Half)
    /\ TrainInit
    /\ data \in StoreFiles
    /\ HistInit
    /\ RunInit(WorldId, MaxMoves)
    /\ fnArgs = [file |-> data]
    /\ fnResult = NotCalled

\* client.store_points(world_id, points)
CallStorePoints(w, p) ==
    /\ Len(calls) < MaxStores
    /\ data' = store_points(data, w, p)
    /\ calls' = Append(calls, Request("store", w, "", p))
    /\ UNCHANGED <<agentVars, trainVars, call, Qprev, branch, rewardsLog, epsLog,
                   lacking, nMoves, nLearn, chosen, updates, lastRes,
                   fnVars, runVars>>

NextStore == \E w \in StoreWorlds, p \in StorePointValues : CallStorePoints(w, p)

SpecStore == InitStore /\ [][NextStore]_vars

\* the worlds stored by the calls, and the last call for world w
StoredWorlds == {calls[i].world : i \in 1..Len(calls)}
LastStore(w) ==
    calls[CHOOSE i \in 1..Len(calls) :
            /\ calls[i].world = w
            /\ \A j \in (i + 1)..Len(calls) : calls[j].world # w]

\* the sum of the values of f, taken one world after the other
SumOver(f) ==
    LET ws == DOMAIN f
    IN  RAdd(IF "1" \in ws THEN f["1"] ELSE Zero,
             IF "2" \in ws THEN f["2"] ELSE Zero)

\* C20: after any sequence of store_points calls the team's total is the sum
\* of its per-world values, each per-world value is the one most recently
\* stored for its world (a later store replaces, it does not add), and the
\* records of other teams are as they were.
C20_StoredPoints ==
    calls # <<>> =>
        LET before == fnArgs.file
            prior == IF TeamId \in DOMAIN before
                     THEN before[TeamId].by_world
                     ELSE [w \in {} |-> Zero]
            team == data[TeamId]
        IN  /\ DOMAIN data = DOMAIN before \cup {TeamId}
            /\ DOMAIN team.by_world = DOMAIN prior \cup StoredWorlds
            /\ DOMAIN team.by_world \subseteq StoreWorlds
            /\ team.total = SumOver(team.by_world)
            /\ \A w \in StoredWorlds : team.by_world[w] = LastStore(w).points
            /\ \A w \in DOMAIN prior \ StoredWorlds : team.by_world[w] = prior[w]
            /\ \A t \in DOMAIN before \ {TeamId} : data[t] = before[t]

\* two stores for one world with different points, in a file that holds
\* another team's record and an earlier record of this team
C20_Witness ==
    /\ Len(calls) = 2
    /\ calls[1].world = calls[2].world
    /\ calls[1].points # calls[2].points
    /\ OtherTeam \in DOMAIN data
    /\ TeamId \in DOMAIN fnArgs.file

====
